---- MODULE Spec2Model ----
(***************************************************************************)
(* Model of the data pre-processing pipeline of the labelling application: *)
(* the text normalizer (turkish_characters, clean_text), the dataset       *)
(* cleaner (data_cleaner, csv_to_xlsx), the annotation aggregator          *)
(* (json_to_csv) and the export handlers of app.py (export_json,           *)
(* export_csv_from_json) with the append-only sink (save_to_db).           *)
(*                                                                         *)
(* A string is a sequence of characters; a character is a one-element      *)
(* TLA+ string, except the characters that have no ASCII spelling: "TAB"   *)
(* is the tab; "g~", "i~", "o~", "u~", "s~", "c~" and their capitals are   *)
(* the Turkish letters g with breve, dotless i (capital: dotted I), o and  *)
(* u with diaeresis, s and c with cedilla; "DOT" is the combining dot      *)
(* above; "e'" is the e with acute accent, a letter turkish_characters     *)
(* does not map.                                                           *)
(***************************************************************************)
EXTENDS Integers, Sequences, FiniteSets, TLC

VARIABLES
    uploads,    \* static/uploads: file name -> content
    clean,      \* static/uploads/clean_data: file name -> content
    sink,       \* db.datasets: the documents inserted, in order
    user_id,    \* session['user_id']: "none" or the id of the logged-in user
    resp,       \* the response of the last request
    trace,      \* the effects of the last request, in the order the handler made them
    nText,      \* normalizer: the string handed to normalize
    nOut        \* normalizer: the successive results of normalize

vars == <<uploads, clean, sink, user_id, resp, trace, nText, nOut>>

(***************************************************************************)
(* Python's str operations on sequences of characters.                     *)
(***************************************************************************)

\* sub in s
Contains(s, sub) ==
    \E i \in 1..(Len(s) - Len(sub) + 1) : SubSeq(s, i, i + Len(sub) - 1) = sub

\* s.replace(old, new): the non-overlapping occurrences, left to right
RECURSIVE Replace(_, _, _)
Replace(s, old, new) ==
    IF Len(s) < Len(old) THEN s
    ELSE IF SubSeq(s, 1, Len(old)) = old
         THEN new \o Replace(SubSeq(s, Len(old) + 1, Len(s)), old, new)
         ELSE <<s[1]>> \o Replace(Tail(s), old, new)

\* sep.join(parts)
RECURSIVE Join(_, _)
Join(parts, sep) ==
    IF Len(parts) = 0 THEN <<>>
    ELSE IF Len(parts) = 1 THEN parts[1]
    ELSE parts[1] \o sep \o Join(Tail(parts), sep)

(***************************************************************************)
(* Character classes of the normalizer.                                    *)
(***************************************************************************)
LowerSeq == <<"a", "b", "c", "d", "e", "f", "g", "h", "i", "j", "k", "l", "m",
              "n", "o", "p", "q", "r", "s", "t", "u", "v", "w", "x", "y", "z">>
UpperSeq == <<"A", "B", "C", "D", "E", "F", "G", "H", "I", "J", "K", "L", "M",
              "N", "O", "P", "Q", "R", "S", "T", "U", "V", "W", "X", "Y", "Z">>
\* the characters "ğĞıİöÖüÜşŞçÇ" of turkish_characters and their translations
TurkishSeq == <<"g~", "G~", "i~", "I~", "o~", "O~", "u~", "U~", "s~", "S~", "c~", "C~">>
LatinSeq   == <<"g", "G", "i", "I", "o", "O", "u", "U", "s", "S", "c", "C">>

LowerAscii == {LowerSeq[k] : k \in DOMAIN LowerSeq}
UpperAscii == {UpperSeq[k] : k \in DOMAIN UpperSeq}
Digits     == {"0", "1", "2", "3", "4", "5", "6", "7", "8", "9"}
Whitespace == {" ", "TAB"}
\* Python 3 \w on str: letters of any script, digits and the underscore
WordChars  ==
    LowerAscii \cup UpperAscii \cup Digits \cup {"_", "e'"}
        \cup {TurkishSeq[k] : k \in DOMAIN TurkishSeq}

\* str.maketrans of turkish_characters
TurkishMap(c) ==
    IF \E k \in DOMAIN TurkishSeq : TurkishSeq[k] = c
    THEN LatinSeq[CHOOSE k \in DOMAIN TurkishSeq : TurkishSeq[k] = c]
    ELSE c

\* text.translate(str.maketrans(...))
turkish_characters(text) == [i \in 1..Len(text) |-> TurkishMap(text[i])]

\* str.lower on one character: the lower-case string it becomes
LowerChar(c) ==
    IF \E k \in DOMAIN UpperSeq : UpperSeq[k] = c
    THEN <<LowerSeq[CHOOSE k \in DOMAIN UpperSeq : UpperSeq[k] = c]>>
    ELSE CASE c = "G~" -> <<"g~">>
           [] c = "O~" -> <<"o~">>
           [] c = "U~" -> <<"u~">>
           [] c = "S~" -> <<"s~">>
           [] c = "C~" -> <<"c~">>
           [] c = "I~" -> <<"i", "DOT">>
           [] OTHER    -> <<c>>

\* str.lower
RECURSIVE Lower(_)
Lower(text) == IF Len(text) = 0 THEN <<>> ELSE LowerChar(text[1]) \o Lower(Tail(text))

\* text.split(): the maximal runs of non-whitespace characters
RECURSIVE SplitWs(_, _)
SplitWs(s, cur) ==
    IF Len(s) = 0 THEN (IF Len(cur) = 0 THEN <<>> ELSE <<cur>>)
    ELSE IF s[1] \in Whitespace
         THEN (IF Len(cur) = 0 THEN <<>> ELSE <<cur>>) \o SplitWs(Tail(s), <<>>)
         ELSE SplitWs(Tail(s), Append(cur, s[1]))

\* variant of KeepWord: only the hashtag words are dropped
KeepWordHash(word) == ~Contains(word, <<"#">>)

\* the words kept by the comprehension of clean_text
KeepWord(word) == ~Contains(word, <<"#">>) /\ ~Contains(word, <<"@">>)

DropTagWords(text) ==
    Join(SelectSeq(SplitWs(text, <<>>), KeepWord), <<" ">>)

\* the end of the longest run of characters of class cls that starts at i (i - 1 if none)
RECURSIVE RunEnd(_, _, _)
RunEnd(s, i, cls) ==
    IF i <= Len(s) /\ s[i] \in cls THEN RunEnd(s, i + 1, cls) ELSE i - 1

CharsOf(s) == {s[k] : k \in 1..Len(s)}
NonSpace(s) == CharsOf(s) \ Whitespace
NonWord(s) == CharsOf(s) \ WordChars

\* the literal the first alternative asks for: the escaped bracket makes
\* "@[A-Za-z0-9" plain characters, followed by one or more "]"
AtLiteral == <<"@", "[", "A", "-", "Z", "a", "-", "z", "0", "-", "9">>

\* length of the match of (@\[A-Za-z0-9]+) at i, 0 if none
MatchMention(s, i) ==
    LET e == i + Len(AtLiteral) - 1
        r == RunEnd(s, e + 1, {"]"})
    IN  IF e <= Len(s) /\ SubSeq(s, i, e) = AtLiteral /\ r > e THEN r - i + 1 ELSE 0

\* length of the match of ([^0-9A-Za-z \t]) at i
MatchNonAlnum(s, i) ==
    IF s[i] \notin (LowerAscii \cup UpperAscii \cup Digits \cup Whitespace) THEN 1 ELSE 0

\* length of the match of (\w+:\/\/\S+) at i
MatchUrl(s, i) ==
    LET w == RunEnd(s, i, WordChars)
        e == RunEnd(s, w + 4, NonSpace(s))
    IN  IF w >= i /\ w + 3 <= Len(s) /\ SubSeq(s, w + 1, w + 3) = <<":", "/", "/">>
           /\ e >= w + 4
        THEN e - i + 1 ELSE 0

\* length of the match of ^rt at i
MatchRt(s, i) ==
    IF i = 1 /\ Len(s) >= 2 /\ SubSeq(s, 1, 2) = <<"r", "t">> THEN 2 ELSE 0

\* length of the match of http.+? at i: "http" and one more character
MatchHttp(s, i) ==
    IF i + 4 <= Len(s) /\ SubSeq(s, i, i + 3) = <<"h", "t", "t", "p">> THEN 5 ELSE 0

\* the alternatives in the order the pattern lists them: the first that matches wins
MatchNoise(s, i) ==
    IF MatchMention(s, i) > 0 THEN MatchMention(s, i)
    ELSE IF MatchNonAlnum(s, i) > 0 THEN MatchNonAlnum(s, i)
    ELSE IF MatchUrl(s, i) > 0 THEN MatchUrl(s, i)
    ELSE IF MatchRt(s, i) > 0 THEN MatchRt(s, i)
    ELSE MatchHttp(s, i)

\* re.sub(pattern, "", text): scan left to right, drop every match
RECURSIVE StripNoiseFrom(_, _)
StripNoiseFrom(s, i) ==
    IF i > Len(s) THEN <<>>
    ELSE LET n == MatchNoise(s, i)
         IN  IF n > 0 THEN StripNoiseFrom(s, i + n)
             ELSE <<s[i]>> \o StripNoiseFrom(s, i + 1)

StripNoise(text) == StripNoiseFrom(text, 1)

\* re.sub(r'\W+\s*', ' ', text): every run of non-word characters becomes one space
RECURSIVE CollapseNonWord(_)
CollapseNonWord(s) ==
    IF Len(s) = 0 THEN <<>>
    ELSE IF s[1] \notin WordChars
         THEN <<" ">> \o CollapseNonWord(
                  SubSeq(s, RunEnd(s, 1, NonWord(s)) + 1, Len(s)))
         ELSE <<s[1]>> \o CollapseNonWord(Tail(s))

\* re.sub(r"\d+", "", text)
IsNotDigit(c) == c \notin Digits

\* variant of StripDigits: the digits stay
StripDigitsNone(text) == text

StripDigits(text) == SelectSeq(text, IsNotDigit)

clean_text(text) ==
    StripDigits(CollapseNonWord(StripNoise(DropTagWords(Lower(text)))))

\* df.text.apply(turkish_characters).apply(clean_text)
normalize(text) == clean_text(turkish_characters(text))

(***************************************************************************)
(* Files.  A file of either folder is a record: kind is the container      *)
(* ("csv", "xlsx" or "json"), header the column names, rows the rows of    *)
(* text cells.  For a JSON file rows is the document when it is a list, and *)
(* header is <<"list">>, or <<"null">> for the document null.              *)
(***************************************************************************)
File(kind, header, rows) == [kind |-> kind, header |-> header, rows |-> rows]

\* the folder after a file was written at name (created or overwritten)
WriteFile(folder, name, file) ==
    [n \in (DOMAIN folder) \cup {name} |-> IF n = name THEN file ELSE folder[n]]

NoFiles == [n \in {} |-> File("csv", <<>>, <<>>)]

\* str(n) of a non-negative integer, as to_csv writes an int64 cell
DigitChar(d) == <<"0", "1", "2", "3", "4", "5", "6", "7", "8", "9">>[d + 1]

RECURSIVE IntToStr(_)
IntToStr(n) ==
    IF n < 10 THEN <<DigitChar(n)>> ELSE Append(IntToStr(n \div 10), DigitChar(n % 10))

(***************************************************************************)
(* json_to_csv: the annotation aggregator.                                 *)
(***************************************************************************)

\* the columns of df_data, in the order the dict lists them
Columns == <<"id", "text", "company", "positive", "negative", "notr">>

\* the keys of temp_data
Categories == {"company", "positive", "negative", "notr"}

\* variant of translate_json: two categories exchanged
translate_json_swapped ==
    [FIRMA |-> "company", POZITIF |-> "negative", NEGATIF |-> "positive", NOTR |-> "notr"]

translate_json ==
    [FIRMA |-> "company", POZITIF |-> "positive", NEGATIF |-> "negative", NOTR |-> "notr"]

\* df_data before the loop
EmptyDfData == [c \in {Columns[k] : k \in 1..Len(Columns)} |-> <<>>]

\* translate_json[x['tag']] raises KeyError for some annotation x
HasUnknownTag(annotations) ==
    \E k \in 1..Len(annotations) : annotations[k].tag \notin DOMAIN translate_json

\* temp_data[b] after the loop over the annotations (all tags known)
TempData(annotations, b) ==
    LET Mine(x) == translate_json[x.tag] = b
        sel == SelectSeq(annotations, Mine)
    IN  [k \in 1..Len(sel) |-> sel[k].text]

\* variant of DelDup: the texts as collected, duplicates kept
DelDupKeep(texts) == {texts}

\* list(set(texts)): the distinct texts, in any order the set may iterate in
DelDup(texts) ==
    LET S == {texts[k] : k \in 1..Len(texts)}
    IN  {p \in [1..Cardinality(S) -> S] : \A i, j \in DOMAIN p : i # j => p[i] # p[j]}

\* the values df_data[b] can gain for one event
NewValue(texts) ==
    IF Len(texts) > 0 THEN {Join(p, <<"|">>) : p \in DelDup(texts)} ELSE {<<>>}

\* variant of ProcessEvent: an annotation with an unknown tag is skipped
\* (except: continue) instead of ending the function
ProcessEventSkip(df, i) ==
    LET Known(x) == x.tag \in DOMAIN translate_json
        anns == SelectSeq(i.annotations, Known)
    IN  {[err |-> FALSE,
          df  |-> [df EXCEPT !.id = Append(@, i.page), !.text = Append(@, i.text),
                             !.company = Append(@, co), !.positive = Append(@, po),
                             !.negative = Append(@, ne), !.notr = Append(@, no)]] :
             co \in NewValue(TempData(anns, "company")),
             po \in NewValue(TempData(anns, "positive")),
             ne \in NewValue(TempData(anns, "negative")),
             no \in NewValue(TempData(anns, "notr"))}

\* variant of ProcessEvent: an event whose page already has a row is merged away
ProcessEventMerge(df, i) ==
    IF \E k \in 1..Len(df.id) : df.id[k] = i.page
    THEN {[err |-> HasUnknownTag(i.annotations), df |-> df]}
    ELSE ProcessEventSkip(df, [i EXCEPT !.annotations =
                                  IF HasUnknownTag(@) THEN <<>> ELSE @])

\* variant of ProcessEvent: the else branch is missing, so a category without
\* annotations gains no entry
ProcessEventNoElse(df, i) ==
    LET df1 == [df EXCEPT !.id = Append(@, i.page), !.text = Append(@, i.text)]
        Gain(col, texts, v) == IF Len(texts) > 0 THEN Append(col, v) ELSE col
    IN  IF HasUnknownTag(i.annotations)
        THEN {[err |-> TRUE, df |-> df1]}
        ELSE {[err |-> FALSE,
               df  |-> [df1 EXCEPT
                          !.company  = Gain(@, TempData(i.annotations, "company"), co),
                          !.positive = Gain(@, TempData(i.annotations, "positive"), po),
                          !.negative = Gain(@, TempData(i.annotations, "negative"), ne),
                          !.notr     = Gain(@, TempData(i.annotations, "notr"), no)]] :
                  co \in NewValue(TempData(i.annotations, "company")),
                  po \in NewValue(TempData(i.annotations, "positive")),
                  ne \in NewValue(TempData(i.annotations, "negative")),
                  no \in NewValue(TempData(i.annotations, "notr"))}

\* one iteration of the loop over the events: df_data after the event i, and
\* whether the function returned err in it
ProcessEvent(df, i) ==
    LET df1 == [df EXCEPT !.id = Append(@, i.page), !.text = Append(@, i.text)]
    IN  IF HasUnknownTag(i.annotations)
        THEN {[err |-> TRUE, df |-> df1]}
        ELSE {[err |-> FALSE,
               df  |-> [df1 EXCEPT !.company = Append(@, co), !.positive = Append(@, po),
                                   !.negative = Append(@, ne), !.notr = Append(@, no)]] :
                  co \in NewValue(TempData(i.annotations, "company")),
                  po \in NewValue(TempData(i.annotations, "positive")),
                  ne \in NewValue(TempData(i.annotations, "negative")),
                  no \in NewValue(TempData(i.annotations, "notr"))}

\* the states of the loop after the first k events of data
RECURSIVE DfDataAfter(_, _)
DfDataAfter(data, k) ==
    IF k = 0 THEN {[err |-> FALSE, df |-> EmptyDfData]}
    ELSE UNION {IF s.err THEN {s} ELSE ProcessEvent(s.df, data[k]) :
                   s \in DfDataAfter(data, k - 1)}

\* pd.DataFrame(df_data) raises ValueError unless all columns have one length
AlignedColumns(df) == \A c \in DOMAIN df : Len(df[c]) = Len(df.id)

\* df.to_csv(path, index=False): the header, then one line of cells per row
DfToCsv(df) ==
    File("csv", Columns,
         [k \in 1..Len(df.id) |->
             <<IntToStr(df.id[k]), df.text[k], df.company[k], df.positive[k],
               df.negative[k], df.notr[k]>>])

\* the name json_to_csv writes to
CsvNameOf(filename) == Replace(filename, <<"j", "s", "o", "n">>, <<"c", "s", "v">>)

\* variant of json_to_csv: the exception of an unknown tag is dropped and None
\* returned, nothing written
json_to_csv_lenient(folder, filename) ==
    IF filename \notin DOMAIN folder \/ folder[filename].kind # "json"
       \/ folder[filename].header # <<"list">>
    THEN {[ret |-> "raise", folder |-> folder]}
    ELSE LET data == folder[filename].rows
         IN  {IF s.err THEN [ret |-> "None", folder |-> folder]
              ELSE IF ~AlignedColumns(s.df) THEN [ret |-> "raise", folder |-> folder]
              ELSE [ret |-> "None",
                    folder |-> WriteFile(folder, CsvNameOf(filename), DfToCsv(s.df))] :
                 s \in DfDataAfter(data, Len(data))}

\* json_to_csv(filename) on the cleaned-data folder: the outcomes it can have.
\* ret is "None", "err" (an exception returned) or "raise" (an exception raised:
\* the file is missing or is no JSON list of events).
json_to_csv(folder, filename) ==
    IF filename \notin DOMAIN folder \/ folder[filename].kind # "json"
       \/ folder[filename].header # <<"list">>
    THEN {[ret |-> "raise", folder |-> folder]}
    ELSE LET data == folder[filename].rows
         IN  {IF s.err THEN [ret |-> "err", folder |-> folder]
              ELSE IF ~AlignedColumns(s.df) THEN [ret |-> "raise", folder |-> folder]
              ELSE [ret |-> "None",
                    folder |-> WriteFile(folder, CsvNameOf(filename), DfToCsv(s.df))] :
                 s \in DfDataAfter(data, Len(data))}

(***************************************************************************)
(* Responses and the per-request effect log.                               *)
(***************************************************************************)
\* op: the handler; status: "redirect", "file" (send_file), "iserr" (the 500
\* response of res.iserr), "raise" (an exception left the handler: Flask
\* answers 500), "login" (redirect to the login page), "forbidden"
\* arg: what the request carried (a file name, or the JSON body)
Response(op, status, arg) == [op |-> op, status |-> status, arg |-> arg]

NoResponse == Response("none", "none", <<>>)

JsonExt == <<".", "j", "s", "o", "n">>
CsvExt  == <<".", "c", "s", "v">>

\* GET /exportData/jsontocsv/<filename>
export_csv_from_json(filename) ==
    \E o \in json_to_csv(clean, filename \o JsonExt) :
        /\ clean' = o.folder
        /\ resp' = Response("export_csv_from_json",
                            CASE o.ret = "None" -> "file"
                              [] o.ret = "err"  -> "iserr"
                              [] OTHER          -> "raise",
                            filename)
        /\ trace' = IF o.ret = "None" THEN <<"csv">> ELSE <<>>
        /\ UNCHANGED <<uploads, sink, user_id, nText, nOut>>

(***************************************************************************)
(* The dataset loader and writer: data_cleaner and csv_to_xlsx.            *)
(***************************************************************************)
XlsxExt == <<".", "x", "l", "s", "x">>

\* a cell of a DataFrame: t is "int" (v the digits, no leading zero), "str",
\* or "nan" (a missing value)
Cell(t, v) == [t |-> t, v |-> v]

IsIntText(v) == Len(v) > 0 /\ \A k \in 1..Len(v) : v[k] \in Digits

\* the digits without their leading zeros
RECURSIVE Canonical(_)
Canonical(v) == IF Len(v) > 1 /\ v[1] = "0" THEN Canonical(Tail(v)) ELSE v

\* the type inference of the pandas readers: a column of integers is int64;
\* elsewhere an empty cell is a missing value and the rest are strings
InferCell(rows, k, j) ==
    IF \A i \in 1..Len(rows) : IsIntText(rows[i][j])
    THEN Cell("int", Canonical(rows[k][j]))
    ELSE IF rows[k][j] = <<>> THEN Cell("nan", <<>>) ELSE Cell("str", rows[k][j])

ReadTable(file) ==
    [ok |-> TRUE, header |-> file.header,
     rows |-> [k \in 1..Len(file.rows) |->
                  [j \in 1..Len(file.header) |-> InferCell(file.rows, k, j)]]]

ReadFailed == [ok |-> FALSE, header |-> <<>>, rows |-> <<>>]

\* pd.read_csv(path): fails when the file is missing or is not delimited text
read_csv(folder, name) ==
    IF name \in DOMAIN folder /\ folder[name].kind = "csv"
    THEN ReadTable(folder[name]) ELSE ReadFailed

\* pd.read_excel(path): fails when the file is missing or is no workbook
read_excel(folder, name) ==
    IF name \in DOMAIN folder /\ folder[name].kind = "xlsx"
    THEN ReadTable(folder[name]) ELSE ReadFailed

\* the position of the column in the header, 0 if it has none
ColumnIndex(header, col) ==
    IF \E j \in 1..Len(header) : header[j] = col
    THEN CHOOSE j \in 1..Len(header) : header[j] = col
    ELSE 0

\* df[col] = values: the column is replaced, or added as the last one
SetColumn(df, col, values) ==
    LET j == ColumnIndex(df.header, col)
    IN  IF j > 0
        THEN [df EXCEPT !.rows = [k \in 1..Len(df.rows) |->
                                     [df.rows[k] EXCEPT ![j] = values[k]]]]
        ELSE [df EXCEPT !.header = Append(@, col),
                        !.rows = [k \in 1..Len(df.rows) |-> Append(df.rows[k], values[k])]]

\* df.to_csv(path, index=False) of a DataFrame read from a file
TableToCsv(df) ==
    File("csv", df.header,
         [k \in 1..Len(df.rows) |-> [j \in 1..Len(df.header) |-> df.rows[k][j].v]])

\* csv_to_xlsx(filename): every row of the delimited file, cell by cell, into a
\* workbook saved under the name with "csv" replaced by "xlsx"
csv_to_xlsx(folder, filename) ==
    WriteFile(folder,
              Replace(filename, <<"c", "s", "v">>, <<"x", "l", "s", "x">>),
              File("xlsx", folder[filename].header, folder[filename].rows))

\* the DataFrame data_cleaner loads: each reader whose substring test passes is
\* run, in turn, and a reader that fails ends the loading; df stays None
\* (ReadFailed) when no test passes
LoadForCleaning(folder, filename) ==
    LET csv  == Contains(filename, <<"c", "s", "v">>)
        xslx == Contains(filename, <<"x", "s", "l", "x">>)
    IN  IF csv /\ ~read_csv(folder, filename).ok THEN ReadFailed
        ELSE IF xslx THEN read_excel(folder, filename)
        ELSE IF csv THEN read_csv(folder, filename)
        ELSE ReadFailed

\* variant of data_cleaner: the output file is opened before the dataset is
\* loaded, so a failed load leaves an empty file behind
data_cleaner_eager(raw, folder, filename) ==
    LET df == LoadForCleaning(raw, filename)
        t  == ColumnIndex(df.header, "text")
    IN  IF ~df.ok \/ t = 0 \/ \E k \in 1..Len(df.rows) : df.rows[k][t].t # "str"
        THEN [status |-> "iserr",
              folder |-> WriteFile(folder, filename, File("csv", <<>>, <<>>))]
        ELSE LET texts == [k \in 1..Len(df.rows) |->
                              Cell("str", normalize(df.rows[k][t].v))]
                 out   == WriteFile(folder, filename,
                                    TableToCsv(SetColumn(df, "clean_text", texts)))
             IN  [status |-> "redirect", folder |-> csv_to_xlsx(out, filename)]

\* data_cleaner(filename): the response status and the cleaned-data folder after it
data_cleaner(raw, folder, filename) ==
    LET df == LoadForCleaning(raw, filename)
        t  == ColumnIndex(df.header, "text")
    IN  IF ~df.ok \/ t = 0 \/ \E k \in 1..Len(df.rows) : df.rows[k][t].t # "str"
        THEN [status |-> "iserr", folder |-> folder]
        ELSE LET texts == [k \in 1..Len(df.rows) |->
                              Cell("str", normalize(df.rows[k][t].v))]
                 out   == WriteFile(folder, filename,
                                    TableToCsv(SetColumn(df, "clean_text", texts)))
             IN  [status |-> "redirect", folder |-> csv_to_xlsx(out, filename)]

\* GET /cleanData/<filename>
get_clean_data(filename) ==
    LET r == data_cleaner(uploads, clean, filename)
    IN  /\ clean' = r.folder
        /\ resp' = Response("data_cleaner", r.status, filename)
        /\ trace' = IF r.status = "redirect" THEN <<"csv", "xlsx">> ELSE <<>>
        /\ UNCHANGED <<uploads, sink, user_id, nText, nOut>>

(***************************************************************************)
(* The annotation extractor: extract_text_and_ids_from_dataset.            *)
(***************************************************************************)
\* usecols=['id', 'text']: the reader fails unless the file has both columns, and
\* keeps them in the order the file has them
UseCols(df) ==
    IF ~df.ok \/ ColumnIndex(df.header, "id") = 0 \/ ColumnIndex(df.header, "text") = 0
    THEN ReadFailed
    ELSE LET Used(j) == df.header[j] \in {"id", "text"}
             js == SelectSeq([j \in 1..Len(df.header) |-> j], Used)
         IN  [ok |-> TRUE,
              header |-> [i \in 1..Len(js) |-> df.header[js[i]]],
              rows |-> [k \in 1..Len(df.rows) |->
                           [i \in 1..Len(js) |-> df.rows[k][js[i]]]]]

\* the DataFrame the extractor loads from the cleaned-data folder: each reader
\* whose substring test passes is run, in turn; df is unbound when none passes
LoadForExtract(folder, filename) ==
    LET csv  == Contains(filename, <<"c", "s", "v">>)
        xlsx == Contains(filename, <<"x", "l", "s", "x">>)
    IN  IF csv /\ ~UseCols(read_csv(folder, filename)).ok THEN ReadFailed
        ELSE IF xlsx THEN UseCols(read_excel(folder, filename))
        ELSE IF csv THEN UseCols(read_csv(folder, filename))
        ELSE ReadFailed

\* astype('int64') of a cell: an integer, or a string that spells one
CanBeInt64(cell) == cell.t = "int" \/ (cell.t = "str" /\ IsIntText(cell.v))
AsInt64(cell) == Cell("int", Canonical(cell.v))

\* astype('string') of a cell: a missing value stays missing
AsString(cell) == IF cell.t = "nan" THEN cell ELSE Cell("str", cell.v)

\* extract_text_and_ids_from_dataset(filename): the tuples of
\* df.itertuples(index=False, name=None), the columns in the DataFrame's order
extract_text_and_ids_from_dataset(folder, filename) ==
    LET df == LoadForExtract(folder, filename)
        i  == ColumnIndex(df.header, "id")
    IN  IF ~df.ok \/ \E k \in 1..Len(df.rows) : ~CanBeInt64(df.rows[k][i])
        THEN [ok |-> FALSE, tuples |-> <<>>]
        ELSE [ok |-> TRUE,
              tuples |-> [k \in 1..Len(df.rows) |->
                             [j \in 1..Len(df.header) |->
                                 IF df.header[j] = "id" THEN AsInt64(df.rows[k][j])
                                 ELSE AsString(df.rows[k][j])]]]

\* GET /labelData/<filename>: the dataset handed to the page is made of the first
\* and the second element of each tuple
label_data_editor(filename) ==
    LET r == extract_text_and_ids_from_dataset(clean, filename)
    IN  /\ resp' = Response("label_data_editor",
                            IF ~r.ok THEN "raise"
                            ELSE IF user_id = "none" THEN "login" ELSE "page",
                            [filename |-> filename,
                             dataset  |-> [k \in 1..Len(r.tuples) |->
                                              [id |-> r.tuples[k][1],
                                               text |-> r.tuples[k][2]]]])
        /\ trace' = <<>>
        /\ UNCHANGED <<uploads, clean, sink, user_id, nText, nOut>>

(***************************************************************************)
(* Upload.                                                                 *)
(***************************************************************************)
\* the index of the last '.' of the name, 0 if it has none
LastDot(name) ==
    IF \E k \in 1..Len(name) : name[k] = "."
    THEN CHOOSE k \in 1..Len(name) :
             name[k] = "." /\ \A m \in (k + 1)..Len(name) : name[m] # "."
    ELSE 0

\* filename.rsplit('.', 1)[1].lower()
LowerExtension(name) == Lower(SubSeq(name, LastDot(name) + 1, Len(name)))

ALLOWED_EXTENSIONS == {<<"c", "s", "v">>, <<"x", "l", "s", "x">>}

allowed_file(filename) ==
    LastDot(filename) > 0 /\ LowerExtension(filename) \in ALLOWED_EXTENSIONS

\* werkzeug's secure_filename, on names without path separators and blanks: the
\* characters outside [A-Za-z0-9_.-] are dropped
SafeChar(c) == c \in LowerAscii \cup UpperAscii \cup Digits \cup {"_", ".", "-"}
secure_filename(name) == SelectSeq(name, SafeChar)

\* datetime.now().strftime('%Y%m%d%H%M%S') + '_': the uploads of one second
Timestamp == <<"7", "_">>

\* POST /uploadData with the file (its name and its content)
upload_data(filename, file) ==
    /\ filename # <<>>
    /\ IF allowed_file(filename)
       THEN /\ uploads' = WriteFile(uploads, Timestamp \o secure_filename(filename), file)
            /\ resp' = Response("upload_data", "redirect", filename)
            /\ trace' = <<"upload">>
       ELSE /\ uploads' = uploads
            /\ resp' = Response("upload_data", "raise", filename)
            /\ trace' = <<>>
    /\ UNCHANGED <<clean, sink, user_id, nText, nOut>>

(***************************************************************************)
(* The sink and export_json.                                               *)
(***************************************************************************)
\* an optional value of a JSON body: req.get(key) is None when some is FALSE
Some(v) == [some |-> TRUE, val |-> v]
None    == [some |-> FALSE, val |-> <<>>]

\* the JSON body; id is the "_id" of the dict, 0 while it has none
Request(dataset, data) == [dataset |-> dataset, data |-> data, id |-> 0]

\* pymongo's insert_one(document): gives the document an "_id" when it has none,
\* and fails when the store is not reachable (up is FALSE) or holds the "_id"
insert_one(coll, document, up) ==
    LET doc == IF document.id = 0 THEN [document EXCEPT !.id = Len(coll) + 1]
               ELSE document
    IN  IF up /\ \A k \in 1..Len(coll) : coll[k].id # doc.id
        THEN [ok |-> TRUE, coll |-> Append(coll, doc), document |-> doc]
        ELSE [ok |-> FALSE, coll |-> coll, document |-> doc]

\* variant of save_to_db: the exception is swallowed
save_to_db_silent(coll, request, up) ==
    LET r == insert_one(coll, request, up)
    IN  [err |-> FALSE, coll |-> r.coll, request |-> r.document]

\* save_to_db(request): err is the exception returned, if any; request is the
\* dict as the call leaves it
save_to_db(coll, request, up) ==
    LET r == insert_one(coll, request, up)
    IN  [err |-> ~r.ok, coll |-> r.coll, request |-> r.document]

JsonFile(data) == File("json", <<"list">>, data)
JsonNull == File("json", <<"null">>, <<>>)

\* req.get(key) in [None, '', {}, []]
IsBlank(opt) == ~opt.some \/ opt.val = <<>>

\* the file name export_json derives from the dataset name
JsonNameOf(dataset) ==
    Replace(Replace(dataset, <<"x", "l", "s", "x">>, <<"j", "s", "o", "n">>),
            <<"c", "s", "v">>, <<"j", "s", "o", "n">>)

Outcome(status, folder, coll, effects) ==
    [status |-> status, folder |-> folder, coll |-> coll, trace |-> effects]

\* export_json on the body req: the outcomes it can have.  up1 and up2 tell
\* whether the store is reachable at the first and at the second save_to_db.
export_json(folder, coll, req, up1, up2) ==
    IF (IsBlank(req.dataset) /\ IsBlank(req.data)) \/ IsBlank(req.dataset)
    THEN \* res.iserr lacks its err argument, None has no replace, open('') fails
         {Outcome("raise", folder, coll, <<>>)}
    ELSE LET filename == JsonNameOf(req.dataset.val)
             written  == WriteFile(folder, filename,
                                   IF req.data.some THEN JsonFile(req.data.val)
                                   ELSE JsonNull)
         IN  {IF o.ret = "raise" THEN Outcome("raise", o.folder, coll, <<"json">>)
              ELSE IF o.ret = "err" THEN Outcome("iserr", o.folder, coll, <<"json">>)
              ELSE LET s1 == save_to_db(coll, req, up1)
                       s2 == save_to_db(s1.coll, s1.request, up2)
                   IN  IF s1.err
                       THEN Outcome("iserr", o.folder, s1.coll, <<"json", "csv", "sinkfail">>)
                       ELSE IF s2.err
                       THEN Outcome("iserr", o.folder, s2.coll,
                                    <<"json", "csv", "sink", "sinkfail">>)
                       ELSE Outcome("redirect", o.folder, s2.coll,
                                    <<"json", "csv", "sink", "sink">>) :
                 o \in json_to_csv(written, filename)}

MaxSink == 1        \* documents the sink holds

\* the cleaned-data folder is the directory clean_data of the upload folder, and
\* export_json appends the name it derives to the folder's path unchecked: a
\* name that starts with "../" is a file of the upload folder
ParentPrefix == <<".", ".", "/">>

HasParentPrefix(name) == Len(name) > 3 /\ SubSeq(name, 1, 3) = ParentPrefix

\* the files a path relative to the cleaned-data folder can name
Mount(up, cl) ==
    [n \in (DOMAIN cl) \cup {ParentPrefix \o m : m \in DOMAIN up} |->
        IF n \in DOMAIN cl THEN cl[n] ELSE up[SubSeq(n, 4, Len(n))]]

\* the two folders of such a file system
CleanOf(fs) == [n \in {m \in DOMAIN fs : ~HasParentPrefix(m)} |-> fs[n]]

UploadsOf(fs) ==
    [n \in {SubSeq(m, 4, Len(m)) : m \in {x \in DOMAIN fs : HasParentPrefix(x)}} |->
        fs[ParentPrefix \o n]]

\* POST /exportData/json
ExportJson(req, up1, up2) ==
    /\ Len(sink) < MaxSink
    /\ \E o \in export_json(Mount(uploads, clean), sink, req, up1, up2) :
          /\ clean' = CleanOf(o.folder)
          /\ uploads' = UploadsOf(o.folder)
          /\ sink' = o.coll
          /\ resp' = Response("export_json", o.status,
                               [body |-> req, up1 |-> up1, up2 |-> up2])
          /\ trace' = o.trace
    /\ UNCHANGED <<user_id, nText, nOut>>

(***************************************************************************)
(* Session.                                                                *)
(***************************************************************************)
\* POST /login with the credentials of a registered user
login ==
    /\ user_id = "none"
    /\ user_id' = "user"
    /\ resp' = Response("login", "redirect", <<>>)
    /\ trace' = <<>>
    /\ UNCHANGED <<uploads, clean, sink, nText, nOut>>

\* GET /logout
logout ==
    /\ user_id # "none"
    /\ user_id' = "none"
    /\ resp' = Response("logout", "redirect", <<>>)
    /\ trace' = <<>>
    /\ UNCHANGED <<uploads, clean, sink, nText, nOut>>

(***************************************************************************)
(* The application: its requests, drawn from small sets.                   *)
(***************************************************************************)
NameDCsv  == <<"d", ".", "c", "s", "v">>
NameDXlsx == <<"d", ".", "x", "l", "s", "x">>

\* an uploaded dataset, and one without the text column
RawRows == << <<<<"1">>, <<"C~", "o", "k", " ", "5", "!">>>>,
              <<<<"2">>, <<"a", " ", "#", "b">>>> >>

UploadFiles ==
    {<<NameDCsv,  File("csv",  <<"id", "text">>,  RawRows)>>,
     <<NameDCsv,  File("csv",  <<"id", "label">>, RawRows)>>,
     <<NameDXlsx, File("xlsx", <<"id", "text">>,  RawRows)>>}

StoredNames == {Timestamp \o NameDCsv, Timestamp \o NameDXlsx}

Stem7D == Timestamp \o <<"d">>

\* submissions: two annotated events; the same with a tag outside the vocabulary
EventX == [page |-> 1, text |-> <<"x">>,
           annotations |-> <<[tag |-> "POZITIF", text |-> <<"a">>],
                             [tag |-> "POZITIF", text |-> <<"a">>],
                             [tag |-> "NOTR",    text |-> <<"b">>]>>]
EventY == [page |-> 1, text |-> <<"y">>,
           annotations |-> <<[tag |-> "FIRMA", text |-> <<"b">>]>>]
EventBad == [page |-> 2, text |-> <<"y">>,
             annotations |-> <<[tag |-> "NEGATIF", text |-> <<"a">>],
                               [tag |-> "UNKNOWN", text |-> <<"x">>]>>]

Bodies ==
    {Request(ds, da) :
        ds \in {Some(Timestamp \o NameDCsv), Some(Timestamp \o NameDXlsx), None},
        da \in {Some(<<EventX, EventY>>), Some(<<EventX, EventBad>>), Some(<<>>), None}}

Init ==
    /\ uploads = NoFiles
    /\ clean = NoFiles
    /\ sink = <<>>
    /\ user_id = "none"
    /\ resp = NoResponse
    /\ trace = <<>>
    /\ nText = <<>>
    /\ nOut = <<>>

Next ==
    \/ login
    \/ logout
    \/ \E u \in UploadFiles : upload_data(u[1], u[2])
    \/ \E filename \in StoredNames : get_clean_data(filename)
    \/ \E req \in Bodies, up1, up2 \in BOOLEAN : ExportJson(req, up1, up2)
    \/ export_csv_from_json(Stem7D)

Spec == Init /\ [][Next]_vars

(***************************************************************************)
(* The pipeline on submissions whose dataset name is a file name, or a     *)
(* path from the cleaned-data folder to an uploaded file.                  *)
(***************************************************************************)
PathBodies ==
    {Request(Some(ds), Some(<<EventX, EventY>>)) :
        ds \in {Timestamp \o NameDCsv, ParentPrefix \o Timestamp \o NameDCsv}}

NextPath ==
    \/ \E u \in UploadFiles : upload_data(u[1], u[2])
    \/ \E filename \in StoredNames : get_clean_data(filename)
    \/ \E req \in PathBodies, up1, up2 \in BOOLEAN : ExportJson(req, up1, up2)
    \/ export_csv_from_json(Stem7D)

SpecPath == Init /\ [][NextPath]_vars

(***************************************************************************)
(* The loader and the extractor on bounded uploaded files.                 *)
(***************************************************************************)
MaxRows == 2        \* rows of an uploaded table

GitKeep == <<".", "g", "i", "t", "k", "e", "e", "p">>

LoadHeaders == {<<"id", "text">>, <<"text", "id">>, <<"id", "label">>}

\* the cells of an uploaded table: an integer with a leading zero, two texts
CellTexts == {<<"0", "7">>, <<"A", "!">>, <<"b", " ", "#", "c">>}

\* the upload folder holds one file: a table in either container under either
\* name, a file that is no table under an accepted name, or .gitkeep
InitLoad ==
    /\ \/ \E name \in StoredNames, kind \in {"csv", "xlsx"}, header \in LoadHeaders :
            \E n \in 0..MaxRows : \E rows \in [1..n -> [1..Len(header) -> CellTexts]] :
               uploads = WriteFile(NoFiles, name, File(kind, header, rows))
       \/ \E name \in StoredNames \cup {GitKeep} :
            uploads = WriteFile(NoFiles, name, File("other", <<>>, <<>>))
    /\ clean = NoFiles
    /\ sink = <<>>
    /\ user_id \in {"none", "user"}
    /\ resp = NoResponse
    /\ trace = <<>>
    /\ nText = <<>>
    /\ nOut = <<>>

NextLoad ==
    \/ \E filename \in StoredNames \cup {GitKeep} : get_clean_data(filename)
    \/ \E filename \in StoredNames : label_data_editor(filename)

SpecLoad == InitLoad /\ [][NextLoad]_vars

(***************************************************************************)
(* The pipeline on two uploads, one of them with "json" in its stem.       *)
(***************************************************************************)
NameJsonCsv == <<"j", "s", "o", "n", ".", "c", "s", "v">>

StemNames == {NameDCsv, NameJsonCsv}

NextStem ==
    \/ \E name \in StemNames :
          upload_data(name, File("csv", <<"id", "text">>, RawRows))
    \/ \E name \in StemNames : get_clean_data(Timestamp \o name)
    \/ \E name \in StemNames, up1, up2 \in BOOLEAN :
          ExportJson(Request(Some(Timestamp \o name), Some(<<EventX, EventY>>)),
                     up1, up2)

SpecStem == Init /\ [][NextStem]_vars

(***************************************************************************)
(* The loader and the extractor on uploads whose names differ in the case  *)
(* of the extension and in the substrings of the stem.                     *)
(***************************************************************************)
\* names allowed_file accepts, as upload_data stores them
DispatchNames ==
    {Timestamp \o n : n \in {NameDCsv, NameDXlsx,
                               <<"d", ".", "C", "S", "V">>,
                               <<"c", "s", "v", ".", "x", "l", "s", "x">>,
                               <<"x", "l", "s", "x", ".", "c", "s", "v">>}}

\* the container the extension of the name denotes
FormatOf(name) ==
    IF LowerExtension(name) = <<"c", "s", "v">> THEN "csv" ELSE "xlsx"

\* the upload folder holds one table, in the container its extension denotes
InitDispatch ==
    /\ \E name \in DispatchNames, header \in LoadHeaders :
          \E n \in 0..MaxRows : \E rows \in [1..n -> [1..Len(header) -> CellTexts]] :
             uploads = WriteFile(NoFiles, name, File(FormatOf(name), header, rows))
    /\ clean = NoFiles
    /\ sink = <<>>
    /\ user_id = "none"
    /\ resp = NoResponse
    /\ trace = <<>>
    /\ nText = <<>>
    /\ nOut = <<>>

NextDispatch ==
    \/ \E filename \in DispatchNames : get_clean_data(filename)
    \/ \E filename \in DispatchNames : label_data_editor(filename)

SpecDispatch == InitDispatch /\ [][NextDispatch]_vars

(***************************************************************************)
(* The aggregator on bounded submissions.                                  *)
(***************************************************************************)
MaxEvents == 2      \* events of a submission
MaxAnn    == 2      \* annotations of a submission, over all its events

EventHeads == {<<1, <<"x">>>>, <<1, <<"y">>>>, <<2, <<"x">>>>}

\* the annotations a submission is made of: every tag of the vocabulary, a tag
\* outside it, a text that holds the separator, an empty text
Annotations ==
    {[tag |-> "FIRMA",   text |-> <<"a">>],
     [tag |-> "POZITIF", text |-> <<"a">>],
     [tag |-> "POZITIF", text |-> <<"a", "|", "b">>],
     [tag |-> "NEGATIF", text |-> <<>>],
     [tag |-> "NOTR",    text |-> <<"b">>],
     [tag |-> "UNKNOWN", text |-> <<"a">>]}

\* the submission of m events in which the k-th event has the head heads[k] and, in
\* their order, the annotations anns[j] with owner[j] = k
SubmissionOf(heads, anns, owner) ==
    [k \in DOMAIN heads |->
        LET Mine(j) == owner[j] = k
            js == SelectSeq([j \in DOMAIN anns |-> j], Mine)
        IN  [page |-> heads[k][1], text |-> heads[k][2],
             annotations |-> [i \in 1..Len(js) |-> anns[js[i]]]]]

\* an aggregated export left by an earlier request
OldCsv == File("csv", Columns, << <<"9">>, <<"o">>, <<>>, <<>>, <<>>, <<>> >>)

StemD == <<"d">>

InitAgg ==
    /\ uploads = NoFiles
    /\ \E m \in 0..MaxEvents, n \in 0..MaxAnn :
         \E heads \in [1..m -> EventHeads], anns \in [1..n -> Annotations],
            owner \in [1..n -> 1..m] :
           clean = WriteFile(WriteFile(NoFiles, StemD \o JsonExt,
                                       JsonFile(SubmissionOf(heads, anns, owner))),
                             StemD \o CsvExt, OldCsv)
    /\ sink = <<>>
    /\ user_id = "none"
    /\ resp = NoResponse
    /\ trace = <<>>
    /\ nText = <<>>
    /\ nOut = <<>>

NextAgg == export_csv_from_json(StemD)

SpecAgg == InitAgg /\ [][NextAgg]_vars

(***************************************************************************)
(* The normalizer on bounded strings.                                      *)
(***************************************************************************)
MaxPieces == 4      \* pieces an input string is made of

NormPieces ==
    {<<"r", "t">>, <<"h", "t", "t", "p">>, <<":", "/", "/">>, <<"a">>, <<"1">>, <<" ">>,
     <<"TAB">>, <<"#">>, <<"@">>, <<"!">>, <<"C~">>, <<"A">>, <<"_">>}

\* the concatenation of the pieces
RECURSIVE Flatten(_)
Flatten(ps) == IF Len(ps) = 0 THEN <<>> ELSE ps[1] \o Flatten(Tail(ps))

\* normalize applied to the input, then to its own result
Normalize ==
    /\ Len(nOut) < 2
    /\ nOut' = Append(nOut, normalize(IF Len(nOut) = 0 THEN nText ELSE nOut[Len(nOut)]))
    /\ UNCHANGED <<uploads, clean, sink, user_id, resp, trace, nText>>

InitNorm ==
    /\ uploads = NoFiles
    /\ clean = NoFiles
    /\ sink = <<>>
    /\ user_id = "none"
    /\ resp = NoResponse
    /\ trace = <<>>
    /\ \E n \in 0..MaxPieces : \E ps \in [1..n -> NormPieces] : nText = Flatten(ps)
    /\ nOut = <<>>

NextNorm == Normalize

SpecNorm == InitNorm /\ [][NextNorm]_vars

(***************************************************************************)
(* export_json on bounded dataset names: the first request after start-up. *)
(***************************************************************************)
MaxStem == 2        \* pieces the stem of a dataset name is made of

StemPieces == {<<"d">>, <<"c", "s", "v">>, <<"x", "l", "s", "x">>, <<"j", "s", "o", "n">>}

NextName ==
    /\ resp = NoResponse
    /\ \E n \in 1..MaxStem : \E ps \in [1..n -> StemPieces], ext \in {CsvExt, XlsxExt} :
          \E up1, up2 \in BOOLEAN :
             ExportJson(Request(Some(Flatten(ps) \o ext), Some(<<EventX, EventY>>)),
                        up1, up2)

SpecName == Init /\ [][NextName]_vars

(***************************************************************************)
(* Properties of the aggregator, checked under SpecAgg.                    *)
(***************************************************************************)
AggData == clean[StemD \o JsonExt].rows     \* the submission
AggCsv  == clean[StemD \o CsvExt]           \* the file at the output path
AggDone == resp.op = "export_csv_from_json"
AggOk   == AggDone /\ resp.status = "file"

Vocabulary == {"FIRMA", "POZITIF", "NEGATIF", "NOTR"}

\* the category a tag of the vocabulary stands for
CategoryOfTag(tag) ==
    CASE tag = "FIRMA"   -> "company"
      [] tag = "POZITIF" -> "positive"
      [] tag = "NEGATIF" -> "negative"
      [] tag = "NOTR"    -> "notr"

\* the cell of a CSV row that holds the category
FieldOf(row, c) ==
    CASE c = "company"  -> row[3]
      [] c = "positive" -> row[4]
      [] c = "negative" -> row[5]
      [] c = "notr"     -> row[6]

OutsideVocabulary(event) ==
    \E j \in 1..Len(event.annotations) : event.annotations[j].tag \notin Vocabulary

AllTagsValid == \A k \in 1..Len(AggData) : ~OutsideVocabulary(AggData[k])

\* the texts of the annotations of the event whose tag stands for c
TextsOf(event, c) ==
    {event.annotations[j].text :
        j \in {i \in 1..Len(event.annotations) :
                  /\ event.annotations[i].tag \in Vocabulary
                  /\ CategoryOfTag(event.annotations[i].tag) = c}}

\* field.split('|')
RECURSIVE SplitBar(_, _)
SplitBar(s, cur) ==
    IF Len(s) = 0 THEN <<cur>>
    ELSE IF s[1] = "|" THEN <<cur>> \o SplitBar(Tail(s), <<>>)
    ELSE SplitBar(Tail(s), Append(cur, s[1]))

Entries(field) == SplitBar(field, <<>>)
EntrySet(field) == {Entries(field)[k] : k \in 1..Len(Entries(field))}

\* the entries of the field are the texts; the empty field stands for no text
\* as well as for the empty text alone
EntriesAre(field, texts) ==
    \/ EntrySet(field) = texts
    \/ field = <<>> /\ texts \subseteq {<<>>}

HasBar(text) == \E k \in 1..Len(text) : text[k] = "|"

\* the '|'-joins of the texts, each taken once, in every order
JoinsOf(texts) ==
    {Join(p, <<"|">>) :
        p \in {q \in [1..Cardinality(texts) -> texts] :
                  \A i, j \in DOMAIN q : i # j => q[i] # q[j]}}

\* C1: when some annotation of some event carries a tag outside the vocabulary,
\* json_to_csv returns an error and writes no aggregated CSV: the file at the
\* output path stays as it was, whatever valid events came before.
C1_UnknownTagWritesNothing ==
    (\E k \in 1..Len(AggData) : OutsideVocabulary(AggData[k])) =>
        /\ AggCsv = OldCsv
        /\ AggDone => resp.status = "iserr" /\ trace = <<>>

\* C1 witness: json_to_csv returned the error for a submission whose first event
\* is valid and annotated and whose second event carries the unknown tag.
C1_Witness ==
    /\ AggDone /\ resp.status = "iserr"
    /\ Len(AggData) = 2
    /\ Len(AggData[1].annotations) = 1 /\ ~OutsideVocabulary(AggData[1])
    /\ OutsideVocabulary(AggData[2])

\* C2: a submission of n events with valid tags gives exactly n rows, the k-th
\* with the page and the text of the k-th event (events of one page are not
\* merged), and after each processed event every column has one entry per event.
C2_OneRowPerEvent ==
    /\ (AggDone /\ AllTagsValid) =>
          /\ resp.status = "file"
          /\ AggCsv.header = <<"id", "text", "company", "positive", "negative", "notr">>
          /\ Len(AggCsv.rows) = Len(AggData)
          /\ \A k \in 1..Len(AggData) :
                /\ Len(AggCsv.rows[k]) = 6
                /\ AggCsv.rows[k][1] = IntToStr(AggData[k].page)
                /\ AggCsv.rows[k][2] = AggData[k].text
    /\ \A k \in 0..Len(AggData) : \A s \in DfDataAfter(AggData, k) :
          ~s.err => \A c \in DOMAIN s.df : Len(s.df[c]) = k

\* C2 witness: two events of the same page were aggregated into two rows.
C2_Witness ==
    /\ AggOk
    /\ Len(AggData) = 2 /\ AggData[1].page = AggData[2].page
    /\ AggData[1].text # AggData[2].text
    /\ Len(AggCsv.rows) = 2

\* C3 as claimed: for every event and category, the set of '|'-separated entries
\* of the field equals the set of the texts tagged for that category.
C3_EntriesEqualTexts ==
    AggOk =>
        \A k \in 1..Len(AggData) : \A c \in Categories :
            EntriesAre(FieldOf(AggCsv.rows[k], c), TextsOf(AggData[k], c))

\* C3 as amended: the field is the '|'-join, in some order, of the distinct texts
\* of exactly the annotations tagged for the category; its entries are those
\* texts whenever none of them contains '|'.
C3_FieldIsJoinOfTexts ==
    AggOk =>
        \A k \in 1..Len(AggData) : \A c \in Categories :
            LET field == FieldOf(AggCsv.rows[k], c)
                texts == TextsOf(AggData[k], c)
            IN  /\ field \in JoinsOf(texts)
                /\ (\A t \in texts : ~HasBar(t)) => EntriesAre(field, texts)

\* C3 witness: an aggregated event with texts under two categories, one of them
\* the text that holds the separator.
C3_Witness ==
    /\ AggOk
    /\ \E k \in 1..Len(AggData) :
          /\ TextsOf(AggData[k], "positive") = {<<"a", "|", "b">>}
          /\ TextsOf(AggData[k], "company") = {<<"a">>}
          /\ FieldOf(AggCsv.rows[k], "positive") = <<"a", "|", "b">>

NoRepeat(seq) == \A i, j \in 1..Len(seq) : i # j => seq[i] # seq[j]

\* C4 as claimed: no text occurs twice among the '|'-separated entries of a field.
C4_NoEntryTwice ==
    AggOk =>
        \A k \in 1..Len(AggData) : \A c \in Categories :
            NoRepeat(Entries(FieldOf(AggCsv.rows[k], c)))

\* C4 as amended: when no text of the category contains '|', no entry occurs
\* twice, and the field has one entry per distinct text however often the
\* text was annotated.
C4_NoEntryTwiceWithoutBar ==
    AggOk =>
        \A k \in 1..Len(AggData) : \A c \in Categories :
            LET texts == TextsOf(AggData[k], c)
                ents  == Entries(FieldOf(AggCsv.rows[k], c))
            IN  (texts # {} /\ \A t \in texts : ~HasBar(t)) =>
                    NoRepeat(ents) /\ Len(ents) = Cardinality(texts)

\* C4 witness: an event with two annotations of the same tag and text was
\* aggregated, and the field holds the text once.
C4_Witness ==
    /\ AggOk
    /\ \E k \in 1..Len(AggData) :
          /\ Len(AggData[k].annotations) = 2
          /\ AggData[k].annotations[1] = AggData[k].annotations[2]
          /\ AggData[k].annotations[1] = [tag |-> "POZITIF", text |-> <<"a">>]
          /\ FieldOf(AggCsv.rows[k], "positive") = <<"a">>

\* C5: a category without annotations in an event gives the empty string in
\* that field, and the aggregation does not fail for it.
C5_EmptyCategoryEmptyField ==
    (AggDone /\ AllTagsValid) =>
        /\ resp.status = "file"
        /\ \A k \in 1..Len(AggData) : \A c \in Categories :
              TextsOf(AggData[k], c) = {} => FieldOf(AggCsv.rows[k], c) = <<>>

\* C5 witness: an aggregated event with an annotation under one category and
\* none under the others.
C5_Witness ==
    /\ AggOk
    /\ \E k \in 1..Len(AggData) :
          /\ Len(AggData[k].annotations) = 1
          /\ TextsOf(AggData[k], "notr") = {<<"b">>}
          /\ FieldOf(AggCsv.rows[k], "company") = <<>>

(***************************************************************************)
(* Properties of the normalizer, checked under SpecNorm.                   *)
(***************************************************************************)

\* C6: normalize(normalize(x)) = normalize(x) for every string x.
C6_NormalizeIdempotent == Len(nOut) = 2 => nOut[2] = nOut[1]

\* C14: the output of normalize (turkish_characters then clean_text) contains no
\* digit, no punctuation and no upper-case character: every character of it is
\* a lower-case ASCII letter or a space.
C14_OutputLowerLettersAndSpaces ==
    Len(nOut) >= 1 =>
        \A k \in 1..Len(nOut[1]) : nOut[1][k] \in LowerAscii \cup {" "}

\* C14 witness: an input with an upper-case letter, a digit, a punctuation mark
\* and a Turkish capital was normalized to the two letters.
C14_Witness ==
    /\ nText = <<"A", "1", "!", "C~">>
    /\ Len(nOut) >= 1 /\ nOut[1] = <<"a", "c">>

\* the character at i belongs to a whitespace-delimited token that holds '#' or '@'
InTagToken(s, i) ==
    /\ s[i] \notin {" ", "TAB"}
    /\ \E j \in 1..Len(s) :
          /\ s[j] \in {"#", "@"}
          /\ \A m \in (IF i < j THEN i ELSE j)..(IF i < j THEN j ELSE i) :
                s[m] \notin {" ", "TAB"}

\* the string without the characters of those tokens
WithoutTagTokens(s) ==
    LET Outside(i) == ~InTagToken(s, i)
        js == SelectSeq([i \in 1..Len(s) |-> i], Outside)
    IN  [k \in 1..Len(js) |-> s[js[k]]]

\* C15: normalize drops every whitespace-delimited token that contains '#' or
\* '@' as a whole: normalizing the input equals normalizing the input with
\* those tokens removed, so that no letter of such a token reaches the output.
C15_TagTokensDropped ==
    Len(nOut) >= 1 => nOut[1] = normalize(WithoutTagTokens(nText))

\* C15 witness: of the input "a #a" exactly the first token reached the output.
C15_Witness ==
    /\ nText = <<"a", " ", "#", "a">>
    /\ Len(nOut) >= 1 /\ nOut[1] = <<"a">>

(***************************************************************************)
(* Properties of the export handlers, checked under Spec.                  *)
(***************************************************************************)
\* the last request was an export whose aggregation wrote the CSV
Aggregated ==
    /\ resp.op \in {"export_json", "export_csv_from_json"}
    /\ \E k \in 1..Len(trace) : trace[k] = "csv"

\* the name of the CSV the last export wrote
ExportedCsv ==
    IF resp.op = "export_json"
    THEN CsvNameOf(JsonNameOf(resp.arg.body.dataset.val))
    ELSE resp.arg \o CsvExt

\* the files by their path relative to the cleaned-data folder
Disk == Mount(uploads, clean)

\* the spreadsheet file of the same name as the delimited file
SpreadsheetOf(name) == SubSeq(name, 1, LastDot(name) - 1) \o XlsxExt

SameTable(a, b) == a.header = b.header /\ a.rows = b.rows

\* the last request was an export that did all its work: export_csv_from_json
\* sent the file, or export_json wrote the CSV of a submission with events and
\* the sink holds the submission
ExportSucceeded ==
    \/ resp.op = "export_csv_from_json" /\ resp.status = "file"
    \/ /\ resp.op = "export_json" /\ Aggregated
       /\ ~IsBlank(resp.arg.body.data)
       /\ \E k \in 1..Len(trace) : trace[k] = "sink"

\* C7: every successful export of annotation events also emits the spreadsheet
\* form: after it the spreadsheet file of that name holds the aggregated rows.
C7_ExportEmitsSpreadsheet ==
    ExportSucceeded =>
        /\ SpreadsheetOf(ExportedCsv) \in DOMAIN Disk
        /\ SameTable(Disk[SpreadsheetOf(ExportedCsv)], Disk[ExportedCsv])

\* the last request was a clean or an export that succeeded
LastSucceeded ==
    \/ resp.op = "data_cleaner" /\ resp.status = "redirect"
    \/ ExportSucceeded

\* C8: after successful clean and export operations, every dataset that exists
\* in both forms in the cleaned-data folder holds the same rows and column
\* values in its delimited and in its spreadsheet file.
C8_TwoFormsAgree ==
    LastSucceeded =>
        \A n \in DOMAIN clean :
            (clean[n].kind = "csv" /\ SpreadsheetOf(n) \in DOMAIN clean) =>
                SameTable(clean[n], clean[SpreadsheetOf(n)])

\* the sink write of the last export_json failed: its first or its second call
SinkWriteFailed ==
    /\ resp.op = "export_json" /\ Aggregated
    /\ \/ ~resp.arg.up1
       \/ \E k \in 1..Len(trace) : trace[k] = "sinkfail"

\* the file holds one aggregated row per event of the submission
HoldsAggregateOf(file, data) ==
    /\ file.kind = "csv"
    /\ file.header = <<"id", "text", "company", "positive", "negative", "notr">>
    /\ Len(file.rows) = Len(data)
    /\ \A k \in 1..Len(data) :
          file.rows[k][1] = IntToStr(data[k].page) /\ file.rows[k][2] = data[k].text

\* C9: when the sink write fails during export_json, the request ends in an
\* error response and the aggregated CSV it wrote stays in place.
C9_SinkFailureReportedCsvKept ==
    SinkWriteFailed =>
        /\ resp.status = "iserr"
        /\ ExportedCsv \in DOMAIN Disk
        /\ HoldsAggregateOf(Disk[ExportedCsv], resp.arg.body.data.val)

\* C9 witness: the store was unreachable at the first save_to_db of an export
\* of two events; the response is the error and the CSV holds the two rows.
C9_Witness ==
    /\ SinkWriteFailed /\ ~resp.arg.up1
    /\ resp.status = "iserr"
    /\ Len(resp.arg.body.data.val) = 2
    /\ Len(Disk[ExportedCsv].rows) = 2
    /\ sink = <<>>

\* the number of calls of save_to_db the last request made
SinkCalls == Cardinality({k \in 1..Len(trace) : trace[k] \in {"sink", "sinkfail"}})

\* C10: an export_json whose file write and aggregation succeed hands the
\* submission to the sink in a single call, and when that call succeeds the
\* request ends in the redirect.
C10_SingleSinkCall ==
    (resp.op = "export_json" /\ Aggregated) =>
        /\ SinkCalls = 1
        /\ resp.arg.up1 => resp.status = "redirect"

\* the last request was an export_json whose body lacks the dataset or the data
Incomplete ==
    /\ resp.op = "export_json"
    /\ IsBlank(resp.arg.body.dataset) \/ IsBlank(resp.arg.body.data)

\* C18: export_json rejects an incomplete submission before touching any file:
\* when 'dataset' is missing or empty or 'data' is missing or empty (either one),
\* it answers with an error response and writes no JSON file, no CSV and nothing
\* to the sink.
C18_IncompleteRejected ==
    [][Incomplete' =>
          /\ resp'.status \in {"iserr", "raise"}
          /\ trace' = <<>>
          /\ clean' = clean /\ uploads' = uploads /\ sink' = sink]_vars

\* the last request was an export_json that ended in the error response because
\* the aggregation met a tag outside the vocabulary
AggregationFailed ==
    /\ resp.op = "export_json" /\ resp.status = "iserr"
    /\ ~IsBlank(resp.arg.body.dataset) /\ ~IsBlank(resp.arg.body.data)
    /\ \E k \in 1..Len(resp.arg.body.data.val) :
          OutsideVocabulary(resp.arg.body.data.val[k])

\* C19: when export_json ends in an error because the aggregation failed, the
\* cleaned-data folder is as it was before the request: the request created or
\* overwrote no file in it.
C19_FailedExportLeavesFolder ==
    [][AggregationFailed' => clean' = clean]_vars

\* C20: within export_json the steps are ordered raw-JSON write, aggregated-CSV
\* write, sink append: the sink is handed a submission only after the JSON file
\* and then the aggregated CSV of that submission were written in the request.
C20_SinkOnlyAfterCsv ==
    resp.op = "export_json" =>
        \A k \in 1..Len(trace) :
            trace[k] \in {"sink", "sinkfail"} =>
                /\ \E i, j \in 1..Len(trace) :
                      i < j /\ j < k /\ trace[i] = "json" /\ trace[j] = "csv"
                /\ ExportedCsv \in DOMAIN Disk
                /\ HoldsAggregateOf(Disk[ExportedCsv], resp.arg.body.data.val)

\* C20 witness: an export of two events reached the sink, which holds the
\* submission, after its CSV of two rows was written.
C20_Witness ==
    /\ resp.op = "export_json"
    /\ trace = <<"json", "csv", "sink", "sinkfail">>
    /\ Len(sink) = 1 /\ sink[1].data = resp.arg.body.data
    /\ Len(Disk[ExportedCsv].rows) = 2

\* the dataset the last export was for, and the events it aggregated
ExportTarget ==
    IF resp.op = "export_json" THEN resp.arg.body.dataset.val ELSE resp.arg \o CsvExt

ExportData ==
    IF resp.op = "export_json" THEN resp.arg.body.data.val
    ELSE clean[resp.arg \o JsonExt].rows

\* the file is a cleaned dataset: it has the clean_text column
IsCleaned(file) == ColumnIndex(file.header, "clean_text") > 0

\* C21: the aggregated export for a dataset named D.csv is written to the path
\* of the cleaned dataset D.csv: when D.csv is a cleaned dataset and an export
\* for D.csv succeeds, D.csv then holds the aggregated rows (columns id, text,
\* company, positive, negative, notr) and no longer the clean_text column.
C21_ExportReplacesCleaned ==
    [][(/\ ExportSucceeded'
        /\ LowerExtension(ExportTarget') = <<"c", "s", "v">>
        /\ ExportTarget' \in DOMAIN clean
        /\ IsCleaned(clean[ExportTarget'])) =>
          /\ ExportTarget' \in DOMAIN clean'
          /\ HoldsAggregateOf(clean'[ExportTarget'], ExportData')
          /\ ~IsCleaned(clean'[ExportTarget'])]_vars

\* C23: no request made while the session has no user_id creates or overwrites
\* a file of the upload folder or of the cleaned-data folder, or appends to the
\* sink: every such write follows a login of the session with no logout since.
C23_NoWriteWithoutLogin ==
    [][user_id = "none" =>
          uploads' = uploads /\ clean' = clean /\ sink' = sink]_vars

(***************************************************************************)
(* Properties of the folders, checked under SpecPath.                      *)
(***************************************************************************)

\* C16: the pipeline never mutates a raw uploaded dataset: after a request other
\* than an upload (data_cleaner with csv_to_xlsx, export_json with json_to_csv,
\* export_csv_from_json) every file of the upload folder has the content it had
\* after its upload, the outputs being written under the cleaned-data folder.
C16_UploadsNeverMutated ==
    [][resp'.op # "upload_data" =>
          \A n \in DOMAIN uploads : n \in DOMAIN uploads' /\ uploads'[n] = uploads[n]]_vars

(***************************************************************************)
(* Properties of the file names, checked under SpecName.                   *)
(***************************************************************************)
\* the name without its extension
StemOf(name) == SubSeq(name, 1, LastDot(name) - 1)

\* C11: for a dataset name stem.ext (ext csv or xlsx), export_json followed by
\* json_to_csv writes the aggregated CSV to stem.csv, the stem unchanged even
\* when it contains 'csv', 'xlsx' or 'json'.
C11_OutputIsStemCsv ==
    (resp.op = "export_json" /\ Aggregated) =>
        LET out == StemOf(resp.arg.body.dataset.val) \o CsvExt
        IN  /\ out \in DOMAIN clean
            /\ HoldsAggregateOf(clean[out], resp.arg.body.data.val)

(***************************************************************************)
(* Properties of the loader and the extractor, checked under SpecLoad.     *)
(***************************************************************************)
\* the uploaded file is a spreadsheet, named .xlsx, with a column of texts
ValidSpreadsheet(name) ==
    /\ name \in DOMAIN uploads
    /\ LowerExtension(name) = <<"x", "l", "s", "x">>
    /\ uploads[name].kind = "xlsx"
    /\ ColumnIndex(uploads[name].header, "text") > 0
    /\ \A k \in 1..Len(uploads[name].rows) :
          ~IsIntText(uploads[name].rows[k][ColumnIndex(uploads[name].header, "text")])

\* C12: data_cleaner applied to an uploaded spreadsheet file (.xlsx, valid
\* content with a text column) loads it and produces the cleaned dataset, as
\* for a .csv file, rather than ending in an error.
C12_SpreadsheetIsCleaned ==
    (resp.op = "data_cleaner" /\ ValidSpreadsheet(resp.arg)) =>
        /\ resp.status = "redirect"
        /\ resp.arg \in DOMAIN clean

\* the file of that name is neither a delimited file nor a spreadsheet: by its
\* content, or by the extension of its name
NeitherFormat(name) ==
    \/ name \in DOMAIN uploads /\ uploads[name].kind \notin {"csv", "xlsx"}
    \/ ~allowed_file(name)

\* C13: loading a file whose format is neither delimited nor spreadsheet fails
\* with an error reported to the caller, and data_cleaner then writes nothing to
\* the cleaned-data folder, neither the CSV nor the spreadsheet form.
C13_UnsupportedFormatWritesNothing ==
    [][(resp'.op = "data_cleaner" /\ NeitherFormat(resp'.arg)) =>
          resp'.status = "iserr" /\ clean' = clean]_vars

\* C13 witness: data_cleaner was asked for an uploaded file that carries an
\* accepted name and is no table; it reported the error and the cleaned-data
\* folder is empty.
C13_Witness ==
    /\ resp.op = "data_cleaner" /\ resp.status = "iserr"
    /\ resp.arg = Timestamp \o NameDCsv
    /\ resp.arg \in DOMAIN uploads /\ uploads[resp.arg].kind = "other"
    /\ clean = NoFiles

\* C17: extract_text_and_ids_from_dataset returns one (id, text) pair per row
\* of the cleaned file, in the file's row order, each pair carrying the id and
\* the text of that row and no other column.
C17_OnePairPerRow ==
    (resp.op = "label_data_editor" /\ resp.status # "raise") =>
        LET file == clean[resp.arg.filename]
            i == ColumnIndex(file.header, "id")
            t == ColumnIndex(file.header, "text")
        IN  /\ Len(resp.arg.dataset) = Len(file.rows)
            /\ \A k \in 1..Len(file.rows) :
                  resp.arg.dataset[k] = [id   |-> Cell("int", Canonical(file.rows[k][i])),
                                         text |-> Cell("str", file.rows[k][t])]

(***************************************************************************)
(* Properties of the format dispatch, checked under SpecDispatch.          *)
(***************************************************************************)
\* the file of the folder is a table in the container its name's extension
\* denotes, with a column of texts
TableOfItsFormat(folder, name) ==
    /\ allowed_file(name)
    /\ name \in DOMAIN folder
    /\ folder[name].kind = FormatOf(name)
    /\ ColumnIndex(folder[name].header, "text") > 0
    /\ \A k \in 1..Len(folder[name].rows) :
          ~IsIntText(folder[name].rows[k][ColumnIndex(folder[name].header, "text")])

\* and it has a column of integer ids
HasIds(file) ==
    /\ ColumnIndex(file.header, "id") > 0
    /\ \A k \in 1..Len(file.rows) :
          IsIntText(file.rows[k][ColumnIndex(file.header, "id")])

\* C22: every file name allowed_file accepts is dispatched by data_cleaner and
\* by extract_text_and_ids_from_dataset to the reader of the format its
\* extension denotes, whatever the letter case of the extension and the
\* substrings 'csv' or 'xlsx' elsewhere in the name: a table stored in that
\* format is loaded, not refused.
C22_DispatchByExtension ==
    /\ (resp.op = "data_cleaner" /\ TableOfItsFormat(uploads, resp.arg)) =>
           resp.status = "redirect"
    /\ (/\ resp.op = "label_data_editor"
        /\ TableOfItsFormat(clean, resp.arg.filename)
        /\ HasIds(clean[resp.arg.filename])) =>
           resp.status # "raise"

====
